---- MODULE Spec2Model ----
(***************************************************************************)
(* try-tts: three command line utilities (amazon_tts.py, azure_tts.py,     *)
(* google_tts.py) that read an SSML file, resolve an output path, call a   *)
(* text-to-speech provider and write the MP3 bytes, plus the helpers of    *)
(* utils.py.                                                               *)
(*                                                                         *)
(* Strings are sequences of one-character strings.  A Path is the sequence *)
(* of its parts, as pathlib.PurePosixPath.parts gives them (the scripts    *)
(* are run with `uv run src/..._tts.py data/ssmls/input.ssml`).            *)
(* A Python Optional is a set: {} is None, {x} is the value x.             *)
(***************************************************************************)
EXTENDS Integers, Sequences, FiniteSets, TLC

VARIABLES
    \* ---- the file system, shared by successive runs
    files,          \* path -> bytes of each regular file that exists
    dirs,           \* the directories that exist
    runs,           \* number of runs started so far
    \* ---- one run (one process)
    pc,             \* position of the process
    variant,        \* "amazon" | "azure" | "google"
    input_file,     \* main's input_file argument (a Path)
    output,         \* main's output (Optional Path)
    model,          \* model.value / voice.value / model
    env_key,        \* AZURE_SPEECH_KEY: "None" is os.getenv's None, "" is empty
    env_region,     \* AZURE_SPEECH_REGION, likewise
    ssml_text,      \* Optional text read by read_ssml_file
    formatted_ssml, \* Optional result of ssml_text.format(...) (Azure)
    response,       \* what the provider call produced
    exit_code,      \* Optional exit code of the process
    stdout,         \* sequence of lines echoed to the output stream
    stderr,         \* sequence of lines echoed to the error stream
    \* ---- history of the run
    trace,          \* the steps taken, in order
    arg_output,     \* the --output option as given on the command line
    missing_at_invoke, \* the input path did not exist when the command was invoked
    pre_files,      \* files at the start of the run
    pre_dirs,       \* dirs at the start of the run
    last_ok,        \* path -> Optional bytes the provider returned to the most
                    \* recent run that completed a synthesis to that path
    \* ---- application of generate_output_filename to arbitrary arguments
    fn_input,       \* the string the input Path is made from
    fn_model,       \* model_name
    fn_which,       \* "none" | "utils" | "google": the copy that was applied
    fn_result       \* the Path it returned

vars == <<files, dirs, runs, pc, variant, input_file, output, model, env_key,
          env_region, ssml_text, formatted_ssml, response, exit_code, stdout,
          stderr, trace, arg_output, missing_at_invoke, pre_files, pre_dirs,
          last_ok, fn_input, fn_model, fn_which, fn_result>>

run_vars == <<files, dirs, runs, pc, variant, input_file, output, model, env_key,
              env_region, ssml_text, formatted_ssml, response, exit_code, stdout,
              stderr, trace, arg_output, missing_at_invoke, pre_files, pre_dirs,
              last_ok>>

fn_vars == <<fn_input, fn_model, fn_which, fn_result>>

(***************************************************************************)
(* Bounds                                                                  *)
(***************************************************************************)
MaxPathLen == 4     \* longest input path string given to generate_output_filename
MaxModelLen == 2    \* longest model name given to generate_output_filename
MaxRuns == 2        \* runs in sequence over one file system

None == {}
Some(x) == {x}
The(s) == CHOOSE x \in s : TRUE

(***************************************************************************)
(* Strings and pathlib                                                     *)
(***************************************************************************)
RECURSIVE StringsUpTo(_, _)
StringsUpTo(alphabet, n) ==
    IF n = 0 THEN {<<>>}
    ELSE LET shorter == StringsUpTo(alphabet, n - 1)
         IN shorter \cup {Append(s, c) : s \in {t \in shorter : Len(t) = n - 1}, c \in alphabet}

\* str.replace(old, new) for one-character old and new
Replace(s, old, new) == [i \in 1..Len(s) |-> IF s[i] = old THEN new ELSE s[i]]

\* the pieces of s between occurrences of the separator (str.split(sep))
RECURSIVE Split(_, _)
Split(s, sep) ==
    IF \A i \in 1..Len(s) : s[i] # sep THEN <<s>>
    ELSE LET k == CHOOSE i \in 1..Len(s) : s[i] = sep /\ \A j \in 1..(i - 1) : s[j] # sep
         IN <<SubSeq(s, 1, k - 1)>> \o Split(SubSeq(s, k + 1, Len(s)), sep)

SelectParts(segs) == SelectSeq(segs, LAMBDA x : x # <<>> /\ x # <<".">>)

\* the root of a posix path string: "" , "/" or (exactly two leading slashes) "//"
Root(s) ==
    IF Len(s) >= 1 /\ s[1] = "/"
    THEN IF Len(s) >= 2 /\ s[2] = "/" /\ ~(Len(s) >= 3 /\ s[3] = "/")
         THEN <<"/", "/">> ELSE <<"/">>
    ELSE <<>>

\* Path(s).parts
ParsePath(s) ==
    (IF Root(s) = <<>> THEN <<>> ELSE <<Root(s)>>) \o SelectParts(Split(s, "/"))

IsAbsolute(s) == Root(s) # <<>>

\* Path.name: the final component, without the root
Name(path) ==
    IF path = <<>> \/ (Len(path) = 1 /\ path[1] \in {<<"/">>, <<"/", "/">>})
    THEN <<>> ELSE path[Len(path)]

\* name.rfind("."), 1-based, 0 when there is none
RFindDot(name) ==
    IF \A i \in 1..Len(name) : name[i] # "." THEN 0
    ELSE CHOOSE i \in 1..Len(name) : name[i] = "." /\ \A j \in (i + 1)..Len(name) : name[j] # "."

\* Path.stem: the name without its last suffix
Stem(path) ==
    LET name == Name(path)
        i == RFindDot(name)
    IN IF 1 < i /\ i < Len(name) THEN SubSeq(name, 1, i - 1) ELSE name

\* dir / s : a relative s is appended part by part, an absolute s replaces dir
JoinPath(dir, s) == IF IsAbsolute(s) THEN ParsePath(s) ELSE dir \o ParsePath(s)

\* Path.parent
Parent(path) ==
    IF path = <<>> \/ (Len(path) = 1 /\ path[1] \in {<<"/">>, <<"/", "/">>}) THEN path
    ELSE SubSeq(path, 1, Len(path) - 1)

\* the directories mkdir(parents=True, exist_ok=True) makes sure exist
Ancestors(path) == {SubSeq(path, 1, k) : k \in 1..Len(path)}

OutputDir == ParsePath(<<"d", "a", "t", "a", "/", "a", "u", "d", "i", "o", "s">>)
Mp3Suffix == <<".", "m", "p", "3">>

(***************************************************************************)
(* utils.py and google_tts.py: generate_output_filename                    *)
(***************************************************************************)
generate_output_filename_name(input_file_, model_name) ==
    LET base_name == Name(input_file_)
        safe_model_name == Replace(Replace(model_name, "/", "-"), "\\", "-")
        output_filename == base_name \o <<"_">> \o safe_model_name \o Mp3Suffix
    IN JoinPath(OutputDir, output_filename)

generate_output_filename_one_replace(input_file_, model_name) ==
    LET base_name == Stem(input_file_)
        safe_model_name == Replace(model_name, "/", "-")
        output_filename == base_name \o <<"_">> \o safe_model_name \o Mp3Suffix
    IN JoinPath(OutputDir, output_filename)

generate_output_filename(input_file_, model_name) ==
    LET base_name == Stem(input_file_)
        safe_model_name == Replace(Replace(model_name, "/", "-"), "\\", "-")
        output_filename == base_name \o <<"_">> \o safe_model_name \o Mp3Suffix
    IN JoinPath(OutputDir, output_filename)

google_generate_output_filename(input_file_, model_name) ==
    LET base_name == Stem(input_file_)
        safe_model_name == Replace(Replace(model_name, "/", "-"), "\\", "-")
        output_filename == base_name \o <<"_">> \o safe_model_name \o Mp3Suffix
    IN JoinPath(OutputDir, output_filename)

(***************************************************************************)
(* Command lines, provider answers and file contents the runs draw from    *)
(***************************************************************************)
InputArg == <<"d", "a", "t", "a", "/", "s", "s", "m", "l", "s", "/", "a", ".", "s", "s", "m", "l">>
ExplicitArg == <<"o", "u", "t", "/", "x", ".", "m", "p", "3">>
InputPath == ParsePath(InputArg)
ExplicitOut == ParsePath(ExplicitArg)

\* PollyVoice (two of its members)
Mizuki == <<"M", "i", "z", "u", "k", "i">>
Takumi == <<"T", "a", "k", "u", "m", "i">>
PollyVoice == {Mizuki, Takumi}
\* AzureVoice (two of its members)
Nanami == <<"j", "a", "-", "J", "P", "-", "N", "a", "n", "a", "m", "i", "N", "e", "u", "r", "a", "l">>
MasaruDragon == <<"j", "a", "-", "J", "P", "-", "M", "a", "s", "a", "r", "u", ":", "D", "r", "a", "g",
                  "o", "n", "H", "D", "L", "a", "t", "e", "s", "t", "N", "e", "u", "r", "a", "l">>
AzureVoice == {Nanami, MasaruDragon}
\* google_tts.py takes any string: its default and one with a path separator
Zephyr == <<"j", "a", "-", "J", "P", "-", "C", "h", "i", "r", "p", "3", "-", "H", "D", "-", "Z", "e",
            "p", "h", "y", "r">>
Custom == <<"m", "y", "/", "v", "o", "i", "c", "e">>
GoogleModels == {Zephyr, Custom}

Variants == {"amazon", "azure", "google"}
ModelsOf(v) == IF v = "amazon" THEN PollyVoice ELSE IF v = "azure" THEN AzureVoice ELSE GoogleModels

\* os.getenv: "None" stands for an unset variable, "" for one set to the empty string
EnvValues == {"None", "", "set"}

\* SSML text as a sequence of pieces: literal text, or a {name} replacement field
SpeakText == <<"<", "s", "p", "e", "a", "k", ">">>
VoiceNameField == <<"v", "o", "i", "c", "e", "_", "n", "a", "m", "e">>
OtherField == <<"x">>
Text(v) == [t |-> "text", v |-> v]
Field(v) == [t |-> "field", v |-> v]
SsmlTexts == { <<Text(SpeakText), Field(VoiceNameField)>>, <<Text(SpeakText), Field(OtherField)>> }

AudioBlobs == { <<1>>, <<2, 3>> }
Prefixes(b) == {SubSeq(b, 1, k) : k \in 0..Len(b)}
ProperPrefixes == UNION {Prefixes(b) \ {b} : b \in AudioBlobs}
OldAudio == <<9>>

NoResponse ==
    [kind |-> "none", has_audio |-> FALSE, audio |-> <<>>, readable |-> FALSE,
     reason |-> "", cancel |-> "", details |-> ""]
Raised == [NoResponse EXCEPT !.kind = "raise"]

\* polly_client.synthesize_speech: raises, or returns a dict with or without
\* "AudioStream"; reading the stream can itself raise
AmazonOutcomes ==
    {Raised, [NoResponse EXCEPT !.kind = "response"]}
    \cup {[NoResponse EXCEPT !.kind = "response", !.has_audio = TRUE, !.audio = b, !.readable = r] :
            b \in AudioBlobs, r \in BOOLEAN}

\* client.synthesize_speech: raises, or returns a response whose audio_content
\* is the audio, empty when the response carries no audio
GoogleOutcomes ==
    {Raised}
    \cup {[NoResponse EXCEPT !.kind = "response", !.has_audio = (b # <<>>), !.audio = b, !.readable = TRUE] :
            b \in AudioBlobs \cup {<<>>}}

\* speech_synthesizer.speak_ssml_async(...).get(): raises, or returns a result;
\* audio holds what the SDK has written to the output file by then
AzureOutcomes ==
    {Raised}
    \cup {[NoResponse EXCEPT !.kind = "result", !.reason = "SynthesizingAudioCompleted",
                             !.has_audio = TRUE, !.audio = b] : b \in AudioBlobs}
    \cup {[NoResponse EXCEPT !.kind = "result", !.reason = "Canceled", !.cancel = c,
                             !.details = d, !.audio = w] :
            c \in {"Error", "EndOfStream"}, d \in {"", "detail"}, w \in ProperPrefixes}
    \cup {[NoResponse EXCEPT !.kind = "result", !.reason = "SynthesizingAudioStarted", !.audio = w] :
            w \in ProperPrefixes}

\* functions as finite maps
EmptyMap == [x \in {} |-> 0]
Put(f, k, v) == [x \in DOMAIN f \cup {k} |-> IF x = k THEN v ELSE f[x]]
Remove(f, k) == [x \in DOMAIN f \ {k} |-> f[x]]

ErrorLine(prefix, exc, path) == [prefix |-> prefix, exc |-> exc, path |-> path]

(***************************************************************************)
(* Initial states                                                          *)
(***************************************************************************)
FnIdle ==
    /\ fn_input = <<>>
    /\ fn_model = <<>>
    /\ fn_which = "none"
    /\ fn_result = <<>>

ProcessIdle ==
    /\ pc = "idle"
    /\ variant = "none"
    /\ input_file = <<>>
    /\ output = None
    /\ model = <<>>
    /\ env_key = "None"
    /\ env_region = "None"
    /\ ssml_text = None
    /\ formatted_ssml = None
    /\ response = NoResponse
    /\ exit_code = None
    /\ stdout = <<>>
    /\ stderr = <<>>
    /\ trace = <<>>
    /\ arg_output = None
    /\ missing_at_invoke = FALSE
    /\ pre_files = EmptyMap
    /\ pre_dirs = {}

ProcessReset ==
    /\ pc' = "idle"
    /\ variant' = "none"
    /\ input_file' = <<>>
    /\ output' = None
    /\ model' = <<>>
    /\ env_key' = "None"
    /\ env_region' = "None"
    /\ ssml_text' = None
    /\ formatted_ssml' = None
    /\ response' = NoResponse
    /\ exit_code' = None
    /\ stdout' = <<>>
    /\ stderr' = <<>>
    /\ trace' = <<>>
    /\ arg_output' = None
    /\ missing_at_invoke' = FALSE
    /\ pre_files' = EmptyMap
    /\ pre_dirs' = {}

\* a file system in which the input file may exist and one output file may
\* be left from earlier
Init ==
    /\ \E content \in Some(None) \cup {Some(c) : c \in SsmlTexts} :
       \E old \in Some(None) \cup {Some(ExplicitOut), Some(generate_output_filename(InputPath, Mizuki))} :
          LET f1 == IF content = None THEN EmptyMap ELSE Put(EmptyMap, InputPath, The(content))
              f2 == IF old = None THEN f1 ELSE Put(f1, The(old), OldAudio)
          IN /\ files = f2
             /\ dirs = UNION {Ancestors(Parent(p)) : p \in DOMAIN f2}
    /\ runs = 0
    /\ last_ok = EmptyMap
    /\ ProcessIdle
    /\ FnIdle

(***************************************************************************)
(* main: the command line layer and the body up to the synthesis           *)
(***************************************************************************)
\* main's except clauses: echo to the error stream, raise typer.Exit(code=1)
Fail(line) ==
    /\ stderr' = Append(stderr, line)
    /\ exit_code' = Some(1)
    /\ pc' = "exited"

\* `uv run src/<variant>_tts.py INPUT [--output O] [--model M]` starts a process;
\* load_dotenv and os.getenv fix the credentials
Invoke ==
    /\ pc = "idle"
    /\ runs < MaxRuns
    /\ \E v \in Variants, o \in {None, Some(ExplicitOut)} :
       \E m \in ModelsOf(v) :
       \E k \in (IF v = "azure" THEN EnvValues ELSE {"None"}),
          r \in (IF v = "azure" THEN EnvValues ELSE {"None"}) :
          /\ variant' = v
          /\ input_file' = InputPath
          /\ output' = o
          /\ arg_output' = o
          /\ model' = m
          /\ env_key' = k
          /\ env_region' = r
    /\ runs' = runs + 1
    /\ pc' = "cli"
    /\ missing_at_invoke' = (InputPath \notin DOMAIN files)
    /\ pre_files' = files
    /\ pre_dirs' = dirs
    /\ UNCHANGED <<files, dirs, ssml_text, formatted_ssml, response, exit_code,
                   stdout, stderr, trace, last_ok>>
    /\ UNCHANGED fn_vars

\* typer.Argument(exists=True, ...): the command line layer rejects a missing
\* input with a usage error (exit code 2) before main's body runs
CliValidate ==
    /\ pc = "cli"
    /\ IF input_file \notin DOMAIN files
       THEN /\ stderr' = Append(stderr, ErrorLine("usage", "BadParameter", Some(input_file)))
            /\ exit_code' = Some(2)
            /\ pc' = "exited"
       ELSE /\ pc' = "main"
            /\ UNCHANGED <<stderr, exit_code>>
    /\ UNCHANGED <<files, dirs, runs, variant, input_file, output, model, env_key,
                   env_region, ssml_text, formatted_ssml, response, stdout, trace,
                   arg_output, missing_at_invoke, pre_files, pre_dirs, last_ok>>
    /\ UNCHANGED fn_vars

\* the input file is removed by someone else between the validation and the read
EnvRemoveInput ==
    /\ pc = "main"
    /\ input_file \in DOMAIN files
    /\ files' = Remove(files, input_file)
    /\ UNCHANGED <<dirs, runs, pc, variant, input_file, output, model, env_key,
                   env_region, ssml_text, formatted_ssml, response, exit_code, stdout,
                   stderr, trace, arg_output, missing_at_invoke, pre_files, pre_dirs,
                   last_ok>>
    /\ UNCHANGED fn_vars

\* utils.read_ssml_file / google_tts.read_ssml_file, and main's handler
ReadSsml ==
    /\ pc = "main"
    /\ stdout' = Append(stdout, "reading")
    /\ IF input_file \notin DOMAIN files
       THEN /\ Fail(ErrorLine("error", "FileNotFoundError", Some(input_file)))
            /\ UNCHANGED <<ssml_text, trace>>
       ELSE /\ ssml_text' = Some(files[input_file])
            /\ trace' = Append(trace, "read")
            /\ pc' = "resolve"
            /\ UNCHANGED <<stderr, exit_code>>
    /\ UNCHANGED <<files, dirs, runs, variant, input_file, output, model, env_key,
                   env_region, formatted_ssml, response, arg_output, missing_at_invoke,
                   pre_files, pre_dirs, last_ok>>
    /\ UNCHANGED fn_vars

\* main: `if output is None: output = generate_output_filename(...)`
resolve_always_generate(output_, input_file_, model_) ==
    generate_output_filename(input_file_, model_)

amazon_resolve_output(output_, input_file_, model_) ==
    IF output_ = None THEN generate_output_filename(input_file_, model_) ELSE The(output_)

azure_resolve_output(output_, input_file_, model_) ==
    IF output_ = None THEN generate_output_filename(input_file_, model_) ELSE The(output_)

google_resolve_output(output_, input_file_, model_) ==
    IF output_ = None THEN google_generate_output_filename(input_file_, model_) ELSE The(output_)

ResolveOutput ==
    /\ pc = "resolve"
    /\ output' = Some(IF variant = "amazon" THEN amazon_resolve_output(output, input_file, model)
                      ELSE IF variant = "azure" THEN azure_resolve_output(output, input_file, model)
                      ELSE google_resolve_output(output, input_file, model))
    /\ stdout' = IF output = None THEN Append(stdout, "outname") ELSE stdout
    /\ trace' = Append(trace, "resolve")
    /\ pc' = "synth"
    /\ UNCHANGED <<files, dirs, runs, variant, input_file, model, env_key, env_region,
                   ssml_text, formatted_ssml, response, exit_code, stderr, arg_output,
                   missing_at_invoke, pre_files, pre_dirs, last_ok>>
    /\ UNCHANGED fn_vars

\* the audio a completed synthesis returned
ReturnedAudio(resp) ==
    IF resp.kind = "response" /\ (variant = "google" \/ (resp.has_audio /\ resp.readable))
       THEN Some(resp.audio)
    ELSE IF resp.kind = "result" /\ resp.reason = "SynthesizingAudioCompleted"
       THEN Some(resp.audio)
    ELSE None

\* main: synthesize_ssml returned; echo the completion message; exit code 0
Report ==
    /\ pc = "report"
    /\ stdout' = Append(stdout, "complete")
    /\ trace' = Append(trace, "report")
    /\ exit_code' = Some(0)
    /\ pc' = "exited"
    /\ last_ok' = IF ReturnedAudio(response) = None THEN last_ok
                  ELSE Put(last_ok, The(output), The(ReturnedAudio(response)))
    /\ UNCHANGED <<files, dirs, runs, variant, input_file, output, model, env_key,
                   env_region, ssml_text, formatted_ssml, response, stderr, arg_output,
                   missing_at_invoke, pre_files, pre_dirs>>
    /\ UNCHANGED fn_vars

\* the process is gone; only the file system remains
Finish ==
    /\ pc = "exited"
    /\ ProcessReset
    /\ UNCHANGED <<files, dirs, runs, last_ok>>
    /\ UNCHANGED fn_vars

\* what a run never changes once it is started
args == <<runs, variant, input_file, model, env_key, env_region, arg_output,
          missing_at_invoke, pre_files, pre_dirs>>

\* output_path.parent.mkdir(parents=True, exist_ok=True)
mkdir_parents(ds, output_path) == ds \cup Ancestors(Parent(output_path))

(***************************************************************************)
(* amazon_tts.py: synthesize_ssml                                          *)
(***************************************************************************)
\* polly_client.synthesize_speech(...); an exception goes to main's handler
AmazonSynthesizeSpeech ==
    /\ pc = "synth" /\ variant = "amazon"
    /\ \E outcome \in AmazonOutcomes :
          /\ response' = outcome
          /\ IF outcome.kind = "raise"
             THEN /\ Fail(ErrorLine("error_occurred", "ProviderError", None))
                  /\ trace' = Append(trace, "call")
             ELSE /\ pc' = "a_mkdir"
                  /\ trace' = trace \o <<"call", "return">>
                  /\ UNCHANGED <<stderr, exit_code>>
    /\ UNCHANGED <<files, dirs, output, ssml_text, formatted_ssml, stdout, last_ok>>
    /\ UNCHANGED args
    /\ UNCHANGED fn_vars

AmazonMkdir ==
    /\ pc = "a_mkdir"
    /\ dirs' = mkdir_parents(dirs, The(output))
    /\ trace' = Append(trace, "mkdir")
    /\ pc' = "a_write"
    /\ UNCHANGED <<files, output, ssml_text, formatted_ssml, response, exit_code,
                   stdout, stderr, last_ok>>
    /\ UNCHANGED args
    /\ UNCHANGED fn_vars

\* `if "AudioStream" in response:` open("wb") truncates, then the stream is read
\* and written; `else: raise Exception(...)`
amazon_has_audio(resp) == resp.has_audio

AmazonWrite ==
    /\ pc = "a_write"
    /\ IF amazon_has_audio(response)
       THEN IF response.readable
            THEN /\ files' = Put(files, The(output), response.audio)
                 /\ trace' = trace \o <<"open", "write">>
                 /\ stdout' = Append(stdout, "saved")
                 /\ pc' = "report"
                 /\ UNCHANGED <<stderr, exit_code>>
            ELSE /\ files' = Put(files, The(output), <<>>)
                 /\ trace' = Append(trace, "open")
                 /\ Fail(ErrorLine("error_occurred", "ProviderError", None))
                 /\ UNCHANGED stdout
       ELSE /\ Fail(ErrorLine("error_occurred", "NoAudioData", None))
            /\ UNCHANGED <<files, trace, stdout>>
    /\ UNCHANGED <<dirs, output, ssml_text, formatted_ssml, response, last_ok>>
    /\ UNCHANGED args
    /\ UNCHANGED fn_vars

(***************************************************************************)
(* google_tts.py: synthesize_ssml                                          *)
(***************************************************************************)
GoogleSynthesizeSpeech ==
    /\ pc = "synth" /\ variant = "google"
    /\ \E outcome \in GoogleOutcomes :
          /\ response' = outcome
          /\ IF outcome.kind = "raise"
             THEN /\ Fail(ErrorLine("error_occurred", "ProviderError", None))
                  /\ trace' = Append(trace, "call")
             ELSE /\ pc' = "g_mkdir"
                  /\ trace' = trace \o <<"call", "return">>
                  /\ UNCHANGED <<stderr, exit_code>>
    /\ UNCHANGED <<files, dirs, output, ssml_text, formatted_ssml, stdout, last_ok>>
    /\ UNCHANGED args
    /\ UNCHANGED fn_vars

GoogleMkdir ==
    /\ pc = "g_mkdir"
    /\ dirs' = mkdir_parents(dirs, The(output))
    /\ trace' = Append(trace, "mkdir")
    /\ pc' = "g_write"
    /\ UNCHANGED <<files, output, ssml_text, formatted_ssml, response, exit_code,
                   stdout, stderr, last_ok>>
    /\ UNCHANGED args
    /\ UNCHANGED fn_vars

\* output_path.write_bytes(response.audio_content), whatever the content is
GoogleWrite ==
    /\ pc = "g_write"
    /\ files' = Put(files, The(output), response.audio)
    /\ trace' = trace \o <<"open", "write">>
    /\ stdout' = Append(stdout, "saved")
    /\ pc' = "report"
    /\ UNCHANGED <<dirs, output, ssml_text, formatted_ssml, response, exit_code,
                   stderr, last_ok>>
    /\ UNCHANGED args
    /\ UNCHANGED fn_vars

(***************************************************************************)
(* azure_tts.py: synthesize_ssml                                           *)
(***************************************************************************)
Truthy(v) == v \notin {"None", ""}

azure_credentials_missing_unset_only(key, region) == key = "None" \/ region = "None"

azure_credentials_missing(key, region) == ~Truthy(key) \/ ~Truthy(region)

\* str.format(voice_name=...): a field of another name raises KeyError
FormatRaises(text) == \E i \in 1..Len(text) : text[i].t = "field" /\ text[i].v # VoiceNameField
Format(text, voice_name) ==
    [i \in 1..Len(text) |-> IF text[i].t = "field" THEN Text(voice_name) ELSE text[i]]

\* the credentials check, the placeholder substitution and the speech config
AzureBegin ==
    /\ pc = "synth" /\ variant = "azure"
    /\ IF azure_credentials_missing(env_key, env_region)
       THEN /\ Fail(ErrorLine("error_occurred", "ValueError", None))
            /\ UNCHANGED formatted_ssml
       ELSE IF FormatRaises(The(ssml_text))
       THEN /\ Fail(ErrorLine("error_occurred", "KeyError", None))
            /\ UNCHANGED formatted_ssml
       ELSE /\ formatted_ssml' = Some(Format(The(ssml_text), model))
            /\ pc' = "z_mkdir"
            /\ UNCHANGED <<stderr, exit_code>>
    /\ UNCHANGED <<files, dirs, output, ssml_text, response, stdout, trace, last_ok>>
    /\ UNCHANGED args
    /\ UNCHANGED fn_vars

AzureMkdir ==
    /\ pc = "z_mkdir"
    /\ dirs' = mkdir_parents(dirs, The(output))
    /\ trace' = Append(trace, "mkdir")
    /\ pc' = "z_synthesizer"
    /\ UNCHANGED <<files, output, ssml_text, formatted_ssml, response, exit_code,
                   stdout, stderr, last_ok>>
    /\ UNCHANGED args
    /\ UNCHANGED fn_vars

\* AudioOutputConfig(filename=...) and SpeechSynthesizer(...): the SDK is given
\* the output file; it opens (creates, truncates) it now or when it synthesizes
AzureCreateSynthesizer ==
    /\ pc = "z_synthesizer"
    /\ \E opens_now \in BOOLEAN :
          IF opens_now
          THEN /\ files' = Put(files, The(output), <<>>)
               /\ trace' = Append(trace, "open")
          ELSE UNCHANGED <<files, trace>>
    /\ pc' = "z_speak"
    /\ UNCHANGED <<dirs, output, ssml_text, formatted_ssml, response, exit_code,
                   stdout, stderr, last_ok>>
    /\ UNCHANGED args
    /\ UNCHANGED fn_vars

\* speech_synthesizer.speak_ssml_async(formatted_ssml).get(): the SDK writes the
\* audio it receives to the output file
AzureSpeak ==
    /\ pc = "z_speak"
    /\ \E outcome \in AzureOutcomes :
          /\ response' = outcome
          /\ files' = Put(files, The(output), outcome.audio)
          /\ IF outcome.kind = "raise"
             THEN /\ Fail(ErrorLine("error_occurred", "ProviderError", None))
                  /\ trace' = trace \o (IF "open" \in {trace[i] : i \in 1..Len(trace)}
                                        THEN <<"call">> ELSE <<"call", "open">>)
             ELSE /\ pc' = "z_check"
                  /\ trace' = trace \o (IF "open" \in {trace[i] : i \in 1..Len(trace)}
                                        THEN <<"call", "write", "return">>
                                        ELSE <<"call", "open", "write", "return">>)
                  /\ UNCHANGED <<stderr, exit_code>>
    /\ UNCHANGED <<dirs, output, ssml_text, formatted_ssml, stdout, last_ok>>
    /\ UNCHANGED args
    /\ UNCHANGED fn_vars

\* `if result.reason == SynthesizingAudioCompleted: ... elif result.reason ==
\* Canceled: ...`: only a cancellation with reason Error and non-empty error
\* details raises; every other result returns to main
azure_result_raises(resp) ==
    resp.reason = "Canceled" /\ resp.cancel = "Error" /\ resp.details # ""

AzureCheckResult ==
    /\ pc = "z_check"
    /\ stdout' = stdout \o
          (IF response.reason = "SynthesizingAudioCompleted" THEN <<"saved">>
           ELSE IF response.reason = "Canceled"
                THEN <<"cancelled">> \o (IF response.cancel = "Error" THEN <<"details">> ELSE <<>>)
           ELSE <<>>)
    /\ IF azure_result_raises(response)
       THEN Fail(ErrorLine("error_occurred", "SynthesisError", None))
       ELSE /\ pc' = "report"
            /\ UNCHANGED <<stderr, exit_code>>
    /\ UNCHANGED <<files, dirs, output, ssml_text, formatted_ssml, response, trace, last_ok>>
    /\ UNCHANGED args
    /\ UNCHANGED fn_vars

(***************************************************************************)
(* The runs                                                                *)
(***************************************************************************)
Next ==
    \/ Invoke
    \/ CliValidate
    \/ EnvRemoveInput
    \/ ReadSsml
    \/ ResolveOutput
    \/ AmazonSynthesizeSpeech
    \/ AmazonMkdir
    \/ AmazonWrite
    \/ GoogleSynthesizeSpeech
    \/ GoogleMkdir
    \/ GoogleWrite
    \/ AzureBegin
    \/ AzureMkdir
    \/ AzureCreateSynthesizer
    \/ AzureSpeak
    \/ AzureCheckResult
    \/ Report
    \/ Finish

Spec == Init /\ [][Next]_vars

(***************************************************************************)
(* generate_output_filename applied to every input path string and model   *)
(* name within the bounds                                                  *)
(***************************************************************************)
PathAlphabet == {"a", ".", "/", "\\"}
ModelAlphabet == {"m", "/", "\\"}

InitResolve ==
    /\ fn_input \in StringsUpTo(PathAlphabet, MaxPathLen)
    /\ fn_model \in StringsUpTo(ModelAlphabet, MaxModelLen)
    /\ fn_which = "none"
    /\ fn_result = <<>>
    /\ files = EmptyMap
    /\ dirs = {}
    /\ runs = 0
    /\ last_ok = EmptyMap
    /\ ProcessIdle

ApplyUtils ==
    /\ fn_which = "none"
    /\ fn_which' = "utils"
    /\ fn_result' = generate_output_filename(ParsePath(fn_input), fn_model)
    /\ UNCHANGED <<fn_input, fn_model>>
    /\ UNCHANGED run_vars

ApplyGoogle ==
    /\ fn_which = "none"
    /\ fn_which' = "google"
    /\ fn_result' = google_generate_output_filename(ParsePath(fn_input), fn_model)
    /\ UNCHANGED <<fn_input, fn_model>>
    /\ UNCHANGED run_vars

NextResolve == ApplyUtils \/ ApplyGoogle

SpecResolve == InitResolve /\ [][NextResolve]_vars

(***************************************************************************)
(* Properties                                                              *)
(***************************************************************************)
Exited == pc = "exited"
InTrace(e) == \E i \in 1..Len(trace) : trace[i] = e
InStdout(l) == \E i \in 1..Len(stdout) : stdout[i] = l
HasSep(m) == \E i \in 1..Len(m) : m[i] \in {"/", "\\"}
CredentialsAbsent == env_key \in {"None", ""} \/ env_region \in {"None", ""}

\* the provider call raised, was cancelled or ended otherwise without
\* completing, or gave a response without audio (or whose audio could not be read)
ProviderFailed ==
    \/ response.kind = "raise"
    \/ response.kind = "response" /\ ~(response.has_audio /\ response.readable)
    \/ response.kind = "result" /\ response.reason # "SynthesizingAudioCompleted"

SynthesisSucceeded ==
    \/ response.kind = "response" /\ response.has_audio /\ response.readable
    \/ response.kind = "result" /\ response.reason = "SynthesizingAudioCompleted"

\* the run has neither created nor changed a regular file
NoFileWritten ==
    \A p \in DOMAIN files : p \in DOMAIN pre_files /\ files[p] = pre_files[p]

\* C1: in every variant a run whose synthesis ended in a provider failure
\* exits with code 1 without printing the completion message, and exit code 0
\* is reached only when the synthesis succeeded.
C1_ProviderFailureExitsOne ==
    Exited =>
        /\ ProviderFailed => exit_code = Some(1) /\ ~InStdout("complete")
        /\ exit_code = Some(0) => SynthesisSucceeded

\* C2: in the Amazon and Google variants a response without audio payload
\* (and no raised error) makes the run exit with code 1, report that audio
\* data could not be obtained, and write no output file.
C2_NoPayloadFails ==
    (Exited /\ variant \in {"amazon", "google"}
            /\ response.kind = "response" /\ ~response.has_audio)
    => /\ exit_code = Some(1)
       /\ \E i \in 1..Len(stderr) : stderr[i].exc = "NoAudioData"
       /\ NoFileWritten

\* C3: no partial success: at termination either the run exited with code 0
\* and the output file holds the complete audio the provider returned, or the
\* run failed and no file exists that did not exist before the run.
C3_NoPartialSuccess ==
    Exited =>
        IF exit_code = Some(0)
        THEN /\ ReturnedAudio(response) # None
             /\ The(output) \in DOMAIN files
             /\ files[The(output)] = The(ReturnedAudio(response))
        ELSE \A p \in DOMAIN files : p \in DOMAIN pre_files

\* C4: when the input path does not exist (at the invocation, or at the read
\* after it disappeared), the run exits with code 1 and an error message
\* naming the path, the provider is never called and no output file is created.
C4_MissingInputExitsOne ==
    (Exited /\ (missing_at_invoke
                \/ \E i \in 1..Len(stderr) : stderr[i].exc = "FileNotFoundError"))
    => /\ exit_code = Some(1)
       /\ \E i \in 1..Len(stderr) : stderr[i].path = Some(input_file)
       /\ ~InTrace("call")
       /\ \A p \in DOMAIN files : p \in DOMAIN pre_files

\* C5: with an explicit --output path the run uses exactly that path: it is
\* the path handed to the synthesis and the only file created or changed,
\* generate_output_filename is not applied, and the only directories created
\* are the parents of that path.
C5_ExplicitOutputUnchanged ==
    arg_output # None =>
        /\ output = arg_output
        /\ ~InStdout("outname")
        /\ \A p \in DOMAIN files :
              (p \notin DOMAIN pre_files \/ files[p] # pre_files[p]) => p = The(arg_output)
        /\ (dirs \ pre_dirs) \subseteq Ancestors(Parent(The(arg_output)))

\* a run with an explicit output path wrote the provider's audio to it
C5_Witness ==
    /\ Exited /\ exit_code = Some(0) /\ arg_output = Some(ExplicitOut)
    /\ ExplicitOut \in DOMAIN files
    /\ files[ExplicitOut] = <<2, 3>>
    /\ ExplicitOut \notin DOMAIN pre_files

\* C6: for a model name m without '/' and '\', both copies of
\* generate_output_filename return data/audios/{stem}_{m}.mp3: three parts,
\* the directory always data/audios, the stem of the input path, m verbatim.
C6_GeneratedName ==
    (fn_which # "none" /\ ~HasSep(fn_model)) =>
        fn_result = << <<"d", "a", "t", "a">>, <<"a", "u", "d", "i", "o", "s">>,
                       Stem(ParsePath(fn_input)) \o <<"_">> \o fn_model \o <<".", "m", "p", "3">> >>

\* an input path in a directory, with a suffix, and a non-empty model name
C6_Witness ==
    /\ fn_which = "google"
    /\ fn_input = <<"/", "a", ".", "a">>
    /\ fn_model = <<"m", "m">>
    /\ fn_result[3] = <<"a", "_", "m", "m", ".", "m", "p", "3">>

\* the {sanitized-model} part of a generated file name: between the stem and
\* its "_" and the ".mp3" suffix
SanitizedPart(fname, stem) == SubSeq(fname, Len(stem) + 2, Len(fname) - 4)

\* every '/' and '\' of m replaced by one '-', everything else verbatim
SanitizedCharByChar(san, m) ==
    /\ Len(san) = Len(m)
    /\ \A i \in 1..Len(m) : san[i] = (IF m[i] \in {"/", "\\"} THEN "-" ELSE m[i])

\* C7 as stated: for a model name with '/' or '\', each such character is
\* replaced by one '-', the final file name component contains no '/' and no
\* '\' at all, and the result is data/audios plus one segment.
C7_NoSeparatorInFilename ==
    (fn_which # "none" /\ HasSep(fn_model)) =>
        LET fname == fn_result[Len(fn_result)]
            stem == Stem(ParsePath(fn_input))
        IN /\ Len(fn_result) = 3
           /\ SubSeq(fn_result, 1, 2) = OutputDir
           /\ fname = stem \o <<"_">> \o SanitizedPart(fname, stem) \o Mp3Suffix
           /\ SanitizedCharByChar(SanitizedPart(fname, stem), fn_model)
           /\ \A i \in 1..Len(fname) : fname[i] \notin {"/", "\\"}

\* C7 as amended: for a model name with '/' or '\', each such character is
\* replaced by one '-' (same length as m), the final file name component
\* contains no '/', and a '\' only where the input stem, which is copied
\* as it is, has one; the result is data/audios plus one segment.
C7_SanitizedModel ==
    (fn_which # "none" /\ HasSep(fn_model)) =>
        LET fname == fn_result[Len(fn_result)]
            stem == Stem(ParsePath(fn_input))
        IN /\ Len(fn_result) = 3
           /\ SubSeq(fn_result, 1, 2) = OutputDir
           /\ fname = stem \o <<"_">> \o SanitizedPart(fname, stem) \o Mp3Suffix
           /\ SanitizedCharByChar(SanitizedPart(fname, stem), fn_model)
           /\ \A i \in 1..Len(fname) :
                 /\ fname[i] # "/"
                 /\ fname[i] = "\\" => (i <= Len(stem) /\ stem[i] = "\\")

\* a model name with both separators in sequence became two dashes
C7_Witness ==
    /\ fn_which = "utils"
    /\ fn_model = <<"/", "\\">>
    /\ fn_input = <<"a", "/", "a">>
    /\ fn_result[Len(fn_result)] = <<"a", "_", "-", "-", ".", "m", "p", "3">>

\* C8: last write wins: between runs, once a run has succeeded in writing to
\* a path, the file there holds exactly the bytes the provider returned to the
\* most recent successful run to that path, and its parent directories exist.
C8_LastWriteWins ==
    pc \in {"idle", "exited"} =>
        \A p \in DOMAIN last_ok :
            /\ p \in DOMAIN files
            /\ files[p] = last_ok[p]
            /\ Ancestors(Parent(p)) \subseteq dirs

\* C9: the steps of a run happen strictly in the order read, resolve,
\* synthesize (call, return), write (mkdir, open, write), report, each at most
\* once and only after all the earlier ones.
C9_StrictOrder ==
    trace = SubSeq(<<"read", "resolve", "call", "return", "mkdir", "open", "write", "report">>,
                   1, Len(trace))

\* C10: an Azure run with AZURE_SPEECH_KEY or AZURE_SPEECH_REGION absent or
\* empty never substitutes the placeholder, never calls the provider and
\* creates no directory and no file; once the SSML was read it exits with
\* code 1 and the generic error of the credentials check.
C10_MissingCredentials ==
    (variant = "azure" /\ CredentialsAbsent) =>
        /\ formatted_ssml = None
        /\ ~InTrace("call")
        /\ dirs = pre_dirs
        /\ NoFileWritten
        /\ (Exited /\ ssml_text # None) =>
              /\ exit_code = Some(1)
              /\ stderr = <<ErrorLine("error_occurred", "ValueError", None)>>
              /\ ~InStdout("complete")

\* an Azure run with an empty key and a set region was stopped by the check
C10_Witness ==
    /\ Exited /\ variant = "azure"
    /\ env_key = "" /\ env_region = "set"
    /\ ssml_text # None
    /\ exit_code = Some(1)
    /\ stderr = <<ErrorLine("error_occurred", "ValueError", None)>>

====
